---- MODULE Spec2Model ----
(***************************************************************************)
(* pyzet: the mutation workflow (add / edit / remove a zettel) over the    *)
(* working tree and the git repository it commits to, together with the    *)
(* parser and the scanner the workflow relies on.                          *)
(*                                                                         *)
(* A zettel id is a timestamp; ids are modelled as the naturals 1..MaxTime *)
(* whose numeric order is the lexicographic order of the 14-digit strings. *)
(* The file README.md of a zettel is the only tracked path of a zettel     *)
(* directory, so a git tree is a function from ids to file contents.       *)
(***************************************************************************)
EXTENDS Integers, Sequences, FiniteSets, TLC

\* ---------------------------------------------------------------- bounds
MaxTime == 2
MaxCommits == 3
MaxFew == 3
MaxLen == 5
MaxLines == 2
MaxIndent == 4
MaxNames == 4
MaxResponses == 2
MaxTokens == 3
MaxRounds == 2

\* ------------------------------------------------------------ basic sets
Ids == 1..MaxTime
NoId == 0
ArgIds == Ids \cup {NoId}
Absent == "Absent"
Contents == {"empty", "blank", "hello", "hi"}

\* The bytes of a file, one character each.
Text(c) ==
  CASE c = "empty" -> << >>
    [] c = "blank" -> <<" ", "\n">>
    [] c = "hello" -> <<"#", " ", "H", "e", "l", "l", "o", "\n">>
    [] c = "hi"    -> <<"#", " ", "H", "i", "\n">>
    [] c = "late"  -> <<"\n", "#", " ", "H", "i", "\n">>

Answers == {"y", "n", "", "KeyboardInterrupt"}

VARIABLES dirs, wt, index, repo, args_id, last

\* What the search and the parser work on: the bytes of the tracked files, the
\* patterns and the case flag of the command line (args.patterns,
\* args.ignore_case), and what the last call returned or raised.
VARIABLES tracked, patterns, ignore_case, result

query == <<tracked, patterns, ignore_case, result>>

vars == <<dirs, wt, index, repo, args_id, last, tracked, patterns,
          ignore_case, result>>

\* ---------------------------------------------------------------- parser
IsSpace(ch) == ch \in {" ", "\t", "\n"}

SetMin(S) == CHOOSE x \in S : \A y \in S : x <= y
SetMax(S) == CHOOSE x \in S : \A y \in S : x >= y

strip(s) ==
  LET keep == {i \in 1..Len(s) : ~IsSpace(s[i])}
  IN IF keep = {} THEN << >> ELSE SubSeq(s, SetMin(keep), SetMax(keep))

\* '$' also matches before one newline at the end of the string.
chomp(line) ==
  IF line # << >> /\ line[Len(line)] = "\n"
    THEN SubSeq(line, 1, Len(line) - 1)
    ELSE line

\* re.match of ^#\s([\S]+.*[\S])$ : '.' matches no newline.
MARKDOWN_TITLE(line) ==
  LET body == chomp(line)
  IN /\ Len(body) >= 4
     /\ body[1] = "#"
     /\ IsSpace(body[2])
     /\ ~IsSpace(body[3])
     /\ ~IsSpace(body[Len(body)])
     /\ \A i \in 3..Len(body) : body[i] # "\n"

\* The marker "# " is left in the title.
get_markdown_title_unstripped(title_line) ==
  IF title_line = << >>
    THEN [err |-> "ValueError", title |-> << >>, warned |-> FALSE]
    ELSE [err |-> "none", title |-> title_line, warned |-> FALSE]

get_markdown_title(title_line) ==
  IF title_line = << >>
    THEN [err |-> "ValueError", title |-> << >>, warned |-> FALSE]
    ELSE IF ~MARKDOWN_TITLE(title_line)
      THEN [err |-> "none", title |-> title_line, warned |-> TRUE]
      ELSE [err |-> "none",
            title |-> SubSeq(chomp(title_line), 3, Len(chomp(title_line))),
            warned |-> FALSE]

\* file.readline() at offset start (1-based): the bytes up to and including
\* the next newline, or up to the end of the file.
readline(text, start) ==
  LET nl == {i \in start..Len(text) : text[i] = "\n"}
  IN IF start > Len(text) THEN << >>
     ELSE SubSeq(text, start, IF nl = {} THEN Len(text) ELSE SetMin(nl))

\* Variant that reads the tags from the first line.
_get_first_and_first_line(text) ==
  [title_line |-> readline(text, 1), tags_line |-> readline(text, 1)]

\* The first line, and the line found by stepping back from two bytes
\* before the end to the byte after a newline (to the start of the file
\* when the steps run out of it).
_get_first_and_last_line(text) ==
  LET nl == {i \in 1..(Len(text) - 1) : text[i] = "\n"}
  IN [title_line |-> readline(text, 1),
      tags_line |-> readline(text, IF nl = {} THEN 1 ELSE SetMax(nl) + 1)]

startswith(s, prefix) ==
  Len(s) >= Len(prefix) /\ SubSeq(s, 1, Len(prefix)) = prefix

\* str.split(): the maximal runs of non-space characters, in order.
split(s) ==
  LET starts == {i \in 1..Len(s) :
                   ~IsSpace(s[i]) /\ (i = 1 \/ IsSpace(s[i - 1]))}
      stop(i) == SetMin({j \in i..Len(s) :
                           j = Len(s) \/ IsSpace(s[j + 1])})
      word[k \in 0..Cardinality(starts)] ==
        IF k = 0 THEN [at |-> 0, acc |-> << >>]
        ELSE LET i == SetMin({x \in starts : x > word[k - 1].at})
             IN [at |-> i,
                 acc |-> Append(word[k - 1].acc, SubSeq(s, i, stop(i)))]
  IN word[Cardinality(starts)].acc

\* str.lstrip('#')
lstrip_hash(s) ==
  LET keep == {i \in 1..Len(s) : s[i] # "#"}
  IN IF keep = {} THEN << >> ELSE SubSeq(s, SetMin(keep), Len(s))

\* The code points of the characters, for the order of Python strings.
ord(ch) ==
  CASE ch = "\t" -> 9 [] ch = "\n" -> 10 [] ch = " " -> 32
    [] ch = "#" -> 35 [] ch = "-" -> 45
    [] ch = "0" -> 48 [] ch = "1" -> 49 [] ch = "2" -> 50
    [] ch = "3" -> 51 [] ch = "9" -> 57 [] ch = "n" -> 110
    [] ch = "A" -> 65 [] ch = "B" -> 66
    [] ch = "H" -> 72 [] ch = "T" -> 84 [] ch = "Z" -> 90
    [] ch = "a" -> 97 [] ch = "b" -> 98 [] ch = "e" -> 101
    [] ch = "i" -> 105 [] ch = "l" -> 108 [] ch = "o" -> 111
    [] ch = "s" -> 115 [] ch = "t" -> 116 [] ch = "z" -> 122

\* s <= t for Python strings.
str_le(s, t) ==
  LET diff == {i \in 1..Len(s) : i > Len(t) \/ s[i] # t[i]}
  IN IF diff = {} THEN TRUE
     ELSE LET i == SetMin(diff)
          IN i <= Len(t) /\ ord(s[i]) < ord(t[i])

\* sorted() of a sequence of strings, equal strings kept.
RECURSIVE sorted_strs(_)
sorted_strs(ws) ==
  IF ws = << >> THEN << >>
  ELSE LET k == SetMin({i \in 1..Len(ws) :
                          \A j \in 1..Len(ws) : str_le(ws[i], ws[j])})
       IN <<ws[k]>> \o sorted_strs(SubSeq(ws, 1, k - 1)
                                    \o SubSeq(ws, k + 1, Len(ws)))

get_tags(line) ==
  LET ws == split(line)
  IN sorted_strs([k \in 1..Len(ws) |-> lstrip_hash(ws[k])])

FourSpaces == <<" ", " ", " ", " ">>

\* zettel.get on the bytes of an existing file.
get_text(text, id) ==
  LET fl == _get_first_and_last_line(text)
  IN IF fl.title_line = << >>
       THEN [err |-> "ValueError", id |-> id, title |-> << >>,
             tags |-> << >>, warned |-> FALSE]
       ELSE LET t == get_markdown_title(strip(fl.title_line))
            IN [err |-> t.err, id |-> id, title |-> t.title,
                tags |-> IF startswith(fl.tags_line, FourSpaces)
                           THEN get_tags(strip(fl.tags_line))
                           ELSE << >>,
                warned |-> t.warned]

get(wtree, ds, id) ==
  IF id \notin ds \/ wtree[id] = Absent
    THEN [err |-> "FileNotFoundError", id |-> id, title |-> << >>]
    ELSE LET z == get_text(Text(wtree[id]), id)
         IN [err |-> z.err, id |-> id, title |-> z.title]

get_from_dir(wtree, ds, id) == get(wtree, ds, id)

get_from_id(wtree, ds, id) ==
  LET z == get_from_dir(wtree, ds, id)
  IN IF z.err = "FileNotFoundError"
       THEN [z EXCEPT !.err = "SystemExit"]
       ELSE z

\* --------------------------------------------------------------- scanner
RECURSIVE sorted(_, _)
sorted(S, reverse) ==
  IF S = {} THEN << >>
  ELSE LET m == IF reverse THEN SetMax(S) ELSE SetMin(S)
       IN <<m>> \o sorted(S \ {m}, reverse)

RECURSIVE collect(_, _, _)
collect(wtree, ds, order) ==
  IF order = << >> THEN << >>
  ELSE LET z == get_from_dir(wtree, ds, Head(order))
           rest == collect(wtree, ds, Tail(order))
       IN IF z.err = "none"
            THEN <<[id |-> z.id, title |-> z.title]>> \o rest
            ELSE rest

get_all(wtree, ds, is_reversed) ==
  LET items == collect(wtree, ds, sorted(ds, is_reversed))
  IN IF items = << >>
       THEN [err |-> "SystemExit", items |-> << >>]
       ELSE [err |-> "none", items |-> items]

\* sorted(path.iterdir(), reverse=...) over directories with any names:
\* paths under one folder are ordered as their names, which are strings.
RECURSIVE sorted_paths(_, _)
sorted_paths(S, reverse) ==
  IF S = {} THEN << >>
  ELSE LET m == CHOOSE x \in S :
                  \A y \in S : IF reverse THEN str_le(y, x) ELSE str_le(x, y)
       IN <<m>> \o sorted_paths(S \ {m}, reverse)

\* Variant that lists the folder in ascending order whatever is asked.
get_all_paths_ascending(wtree, ds, is_reversed) ==
  LET items == collect(wtree, ds, sorted_paths(ds, FALSE))
  IN IF items = << >>
       THEN [err |-> "SystemExit", items |-> << >>]
       ELSE [err |-> "none", items |-> items]

\* get_all over a folder whose directories have any names.
get_all_paths(wtree, ds, is_reversed) ==
  LET items == collect(wtree, ds, sorted_paths(ds, is_reversed))
  IN IF items = << >>
       THEN [err |-> "SystemExit", items |-> << >>]
       ELSE [err |-> "none", items |-> items]

get_last(wtree, ds) ==
  LET all == get_all(wtree, ds, TRUE)
  IN IF all.err # "none"
       THEN [err |-> "SystemExit", id |-> NoId, title |-> << >>]
       ELSE [err |-> "none", id |-> all.items[1].id,
             title |-> all.items[1].title]

\* ------------------------------------------------------- pattern search
\* str.lower() on the letters that occur.
lower(ch) ==
  CASE ch = "Z" -> "z" [] ch = "T" -> "t" [] ch = "H" -> "h"
    [] OTHER -> ch

lower_str(s) == [i \in 1..Len(s) |-> lower(s[i])]

\* The lines of a file without their newlines (str.splitlines()).
RECURSIVE splitlines(_)
splitlines(text) ==
  IF text = << >> THEN << >>
  ELSE LET l == readline(text, 1)
           body == IF l[Len(l)] = "\n" THEN SubSeq(l, 1, Len(l) - 1) ELSE l
       IN <<body>> \o splitlines(SubSeq(text, Len(l) + 1, Len(text)))

\* A pattern without regex operators matches a line that contains it.
line_matches(line, pat, icase) ==
  LET l == IF icase THEN lower_str(line) ELSE line
      q == IF icase THEN lower_str(pat) ELSE pat
  IN \E i \in 1..(Len(l) - Len(q) + 1) : SubSeq(l, i, i + Len(q) - 1) = q

\* The pattern goes without '--or'.
_add_git_grep_pattern_bare(pattern) == <<<<"-", "e">>, pattern>>

_add_git_grep_pattern(pattern) ==
  <<<<"-", "-", "o", "r">>, <<"-", "e">>, pattern>>

RECURSIVE parse_grep_patterns(_)
parse_grep_patterns(pats) ==
  IF pats = << >> THEN << >>
  ELSE IF startswith(Head(pats), <<"-">>)
    THEN pats
    ELSE _add_git_grep_pattern(Head(pats))
           \o parse_grep_patterns(Tail(pats))

\* git's reading of its arguments: what follows each '-e' is a pattern.
RECURSIVE e_args(_)
e_args(opts) ==
  IF Len(opts) < 2 THEN << >>
  ELSE IF Head(opts) = <<"-", "e">>
    THEN <<opts[2]>> \o e_args(SubSeq(opts, 3, Len(opts)))
    ELSE e_args(Tail(opts))

\* git grep --all-match --or -e p1 --or -e p2 ... over the tracked files:
\* the files in which every pattern matches some line, in path order; the
\* exit status is 1 when there is none.  (The patterns searched with below
\* carry no trailing git options.)
git_grep_e(tr, flags, e) ==
  LET hits == {i \in DOMAIN tr :
                 \A k \in 1..Len(e) :
                   \E n \in 1..Len(splitlines(tr[i])) :
                     line_matches(splitlines(tr[i])[n], e[k],
                                  "--ignore-case" \in flags)}
  IN IF hits = {} THEN [rc |-> 1, out |-> << >>]
     ELSE [rc |-> 0, out |-> sorted(hits, FALSE)]

git_grep(tr, flags, opts) == git_grep_e(tr, flags, e_args(opts))

str_isspace(p) == p # << >> /\ \A i \in 1..Len(p) : IsSpace(p[i])

\* Variant that rejects the patterns as soon as one of them is blank.
_patterns_empty_any(pats) ==
  \E k \in 1..Len(pats) : pats[k] = << >> \/ str_isspace(pats[k])

_patterns_empty(pats) ==
  \A k \in 1..Len(pats) : pats[k] = << >> \/ str_isspace(pats[k])

EmptyPatternMsg == "Wrong value provided (empty or whitespace)!"

\* get_from_grep: args.ignore_case is not read; the option is always given.
get_from_grep(tr, pats, icase) ==
  IF _patterns_empty(pats)
    THEN [err |-> "NotFoundError", msg |-> EmptyPatternMsg,
          searched |-> FALSE, matches |-> << >>]
    ELSE
      LET g == git_grep(tr,
                        {"-I", "--all-match", "--name-only", "--ignore-case"},
                        parse_grep_patterns(pats))
          zs == [k \in 1..Len(g.out) |-> get_text(tr[g.out[k]], g.out[k])]
      IN IF g.rc # 0
           THEN [err |-> "NotFoundError", msg |-> "No zettels found!",
                 searched |-> TRUE, matches |-> << >>]
           ELSE IF \E k \in 1..Len(zs) : zs[k].err # "none"
             THEN [err |-> "ValueError", msg |-> "",
                   searched |-> TRUE, matches |-> << >>]
             ELSE [err |-> "none", msg |-> "",
                   searched |-> TRUE, matches |-> zs]

confirmation_threshold == 50

KeyboardInterrupt == "KeyboardInterrupt"

\* int(user_input) for the responses that occur; 0 stands for ValueError
\* (no key of matches is 0 either).
int(user_input) ==
  CASE user_input = "1" -> 1
    [] user_input = "2" -> 2
    [] user_input = "9" -> 9
    [] OTHER -> 0

\* A selection that ended (or waits at a prompt for the next response):
\* its outcome, the zettel selected, the prompts shown so far.
Selection(outcome, id, prompts) ==
  [outcome |-> outcome, id |-> id, prompts |-> prompts]

\* The `while True` loop of select_from_grep over the responses typed.
RECURSIVE select_by_index(_, _, _)
select_by_index(matches, responses, prompts) ==
  LET shown == Append(prompts, "#? ")
  IN IF responses = << >> THEN Selection("waiting", NoId, shown)
     ELSE LET user_input == Head(responses)
          IN IF user_input = KeyboardInterrupt
               THEN Selection("NotEnteredError", NoId, shown)
               ELSE IF user_input = ""
                 THEN Selection("NotEnteredError", NoId, shown)
                 ELSE IF int(user_input) \in DOMAIN matches
                   THEN Selection("selected", matches[int(user_input)].id,
                                  shown)
                   ELSE select_by_index(matches, Tail(responses), shown)

\* Variant without the except clause: the interrupt leaves the call.
select_single_uncaught(matches, responses, prompts) ==
  LET shown == Append(prompts, "Continue? (Y/n): ")
  IN IF responses = << >> THEN Selection("waiting", NoId, shown)
     ELSE IF Head(responses) = KeyboardInterrupt
       THEN Selection(KeyboardInterrupt, NoId, shown)
       ELSE IF Head(responses) # "n"
         THEN Selection("selected", matches[1].id, shown)
         ELSE Selection("NotEnteredError", NoId, shown)

select_single(matches, responses, prompts) ==
  LET shown == Append(prompts, "Continue? (Y/n): ")
  IN IF responses = << >> THEN Selection("waiting", NoId, shown)
     ELSE IF Head(responses) = KeyboardInterrupt
       THEN Selection("NotEnteredError", NoId, shown)
       ELSE IF Head(responses) # "n"
         THEN Selection("selected", matches[1].id, shown)
         ELSE Selection("NotEnteredError", NoId, shown)

select_from_matches(matches, responses, prompts) ==
  IF Len(matches) = 1
    THEN select_single(matches, responses, prompts)
    ELSE select_by_index(matches, responses, prompts)

\* select_from_grep from the point where get_from_grep returned g.
select_from_found(g, responses) ==
  LET bulk == <<"Are you sure to continue? (y/N): ">>
  IN IF g.err # "none" THEN Selection(g.err, NoId, << >>)
     ELSE IF Len(g.matches) > confirmation_threshold
       THEN IF responses = << >> THEN Selection("waiting", NoId, bulk)
            ELSE IF Head(responses) = KeyboardInterrupt
              THEN Selection("NotFoundError", NoId, bulk)
              ELSE IF Head(responses) # "y"
                THEN Selection("NotFoundError", NoId, bulk)
                ELSE select_from_matches(g.matches, Tail(responses), bulk)
       ELSE select_from_matches(g.matches, responses, << >>)

select_from_grep(tr, pats, icase, responses) ==
  select_from_found(get_from_grep(tr, pats, icase), responses)

\* ------------------------------------------------- version control (git)
\* A tree maps the path zettels/<id>/README.md to its content or Absent.
\* The history is linear and the commands read only its end, so a
\* repository r keeps what they can observe of it: r.commits, the two
\* newest commits (HEAD last, HEAD^ before it); r.n, the number of commits;
\* r.logged, the paths changed by a commit older than HEAD.
EmptyTree == [i \in Ids |-> Absent]

HeadTree(cs) == IF cs = << >> THEN EmptyTree ELSE cs[Len(cs)].tree

ParentTree(cs) == IF Len(cs) < 2 THEN EmptyTree ELSE cs[Len(cs) - 1].tree

\* git add <path>: stages the file, or its deletion when it is gone from the
\* working tree; fails on a path that is neither on disk nor tracked.
git_add(idx, wtree, ds, id) ==
  IF id \in ds /\ wtree[id] # Absent
    THEN [rc |-> 0, index |-> [idx EXCEPT ![id] = wtree[id]]]
    ELSE IF idx[id] # Absent
      THEN [rc |-> 0, index |-> [idx EXCEPT ![id] = Absent]]
      ELSE [rc |-> 128, index |-> idx]

TouchedBy(cs) ==
  {i \in DOMAIN HeadTree(cs) : HeadTree(cs)[i] # ParentTree(cs)[i]}

\* The two newest commits of a log.
Newest(cs) == IF Len(cs) > 2 THEN Tail(cs) ELSE cs

\* git commit -m <message>: refuses when the index equals the HEAD tree.
git_commit(idx, r, message) ==
  IF idx = HeadTree(r.commits)
    THEN [rc |-> 1, repo |-> r]
    ELSE [rc |-> 0,
          repo |-> [commits |-> Newest(Append(r.commits,
                                   [msg |-> message, tree |-> idx])),
                    n |-> r.n + 1,
                    logged |-> r.logged \cup TouchedBy(r.commits)]]

\* git commit --amend --no-edit: needs a commit to amend and refuses to
\* leave it empty (index equal to the parent's tree).
git_commit_amend(idx, r) ==
  LET cs == r.commits
  IN IF cs = << >> \/ idx = ParentTree(cs)
       THEN [rc |-> 1, repo |-> r]
       ELSE [rc |-> 0,
             repo |-> [r EXCEPT !.commits[Len(cs)] =
                                   [msg |-> cs[Len(cs)].msg, tree |-> idx]]]

\* git restore <path>: copies the index entry to the working tree; fails
\* on a path git does not know.
git_restore(idx, wtree, id) ==
  IF idx[id] = Absent
    THEN [rc |-> 1, wt |-> wtree]
    ELSE [rc |-> 0, wt |-> [wtree EXCEPT ![id] = idx[id]]]

call_git_add(idx, wtree, ds, id) == git_add(idx, wtree, ds, id).index

call_git_commit(idx, r, message) == git_commit(idx, r, message).repo

call_git_commit_amend(idx, r) == git_commit_amend(idx, r).repo

call_git_restore(idx, wtree, id) == git_restore(idx, wtree, id).wt

\* git diff --name-only HEAD HEAD^ : fails unless HEAD has a parent.
_get_files_touched_last_commit(r) ==
  IF Len(r.commits) < 2
    THEN [err |-> "SystemExit", files |-> {}]
    ELSE [err |-> "none", files |-> TouchedBy(r.commits)]

\* git log <path> is non-empty iff some commit changed the path.
_was_committed_to_git(r, id) ==
  id \in r.logged \cup TouchedBy(r.commits)

ED == <<"E", "D", ":", " ">>
RM == <<"R", "M", ":", " ">>

\* Every commit of an edit is marked, committed before or not.
_get_edit_commit_msg_always_ED(r, id, title) == ED \o title

_get_edit_commit_msg(r, id, title) ==
  IF _was_committed_to_git(r, id) THEN ED \o title ELSE title

\* The file counts as modified whatever the diff says.
_file_was_modified_always(idx, wtree, ds, r, id) ==
  [index |-> call_git_add(idx, wtree, ds, id), modified |-> TRUE]

\* git add, then git diff --staged <path> (index against HEAD).
_file_was_modified(idx, wtree, ds, r, id) ==
  LET staged == call_git_add(idx, wtree, ds, id)
  IN [index |-> staged, modified |-> staged[id] # HeadTree(r.commits)[id]]

_commit_zettel(idx, wtree, ds, r, id, message) ==
  LET staged == call_git_add(idx, wtree, ds, id)
  IN [index |-> staged, repo |-> call_git_commit(staged, r, message)]

\* ------------------------------------------------------------ operations
\* What the last command was and how it ended: the operation, its outcome
\* (the message it prints or the exception it raises) and the zettel whose
\* path it worked on.
Report(op, outcome, id) == [op |-> op, outcome |-> outcome, id |-> id]

\* The editor replaces the file's bytes (or rewrites the same bytes).
_open_file(wtree, id, out) == [wtree EXCEPT ![id] = out]

mkdir(ds, id) == ds \cup {id}

\* The directory is left behind.
rmdir_skipped(ds, id) == ds

rmdir(ds, id) == ds \ {id}

unlink(wtree, id) == [wtree EXCEPT ![id] = Absent]

\* Only an explicit 'n' declines.
is_confirmed_unless_n(answer) == answer # "n"

is_confirmed(answer) == answer = "y"

is_single_touched(files, id) == files = {id}

\* init_repo: an empty notes folder and a git repository without commits.
EmptyRepo == [commits |-> << >>, n |-> 0, logged |-> {}]

\* No search and no parse has run.
NoQuery ==
  /\ tracked = << >>
  /\ patterns = << >>
  /\ ignore_case = FALSE
  /\ result = [op |-> "none"]

Init ==
  /\ dirs = {}
  /\ wt = [i \in Ids |-> Absent]
  /\ index = EmptyTree
  /\ repo = EmptyRepo
  /\ args_id = NoId
  /\ last = Report("init", "ok", NoId)
  /\ NoQuery

\* A note directory and its file are written by hand, outside add_zettel,
\* in a repository that has no note and no history yet.
AuthorOutside(id, c) ==
  /\ dirs = {}
  /\ repo = EmptyRepo
  /\ index = EmptyTree
  /\ dirs' = mkdir(dirs, id)
  /\ wt' = [wt EXCEPT ![id] = c]
  /\ last' = Report("author", "ok", id)
  /\ UNCHANGED <<index, repo, args_id, query>>

\* The clock the ids are read from does not run backwards: a new id is not
\* older than a zettel directory on disk or a note in the history.
known_ids(ds, r) == ds \cup r.logged \cup TouchedBy(r.commits)

utc_now(id_) == \A i \in known_ids(dirs, repo) : i <= id_

\* Every command is entered with args.id = sel: the --id of its command
\* line, or what the previous command of the session left there.
add_result(sel, id_, out) ==
  LET ds1 == mkdir(dirs, id_)
      wt1 == [wt EXCEPT ![id_] = "empty"]
      wt2 == _open_file(wt1, id_, out)
      zet == get(wt2, ds1, id_)
  IN IF zet.err = "ValueError"
       THEN [outcome |-> "aborted", dirs |-> rmdir(ds1, id_),
             wt |-> unlink(wt2, id_), index |-> index,
             repo |-> repo, args_id |-> sel, id |-> id_]
       ELSE LET c == _commit_zettel(index, wt2, ds1, repo, id_, zet.title)
            IN [outcome |-> "created", dirs |-> ds1, wt |-> wt2,
                index |-> c.index, repo |-> c.repo,
                args_id |-> id_, id |-> id_]

add_zettel(sel, id_, out) ==
  /\ utc_now(id_)
  /\ \E r \in {add_result(sel, id_, out)} :
     /\ r.repo.n <= MaxCommits
     /\ dirs' = r.dirs
     /\ wt' = r.wt
     /\ index' = r.index
     /\ repo' = r.repo
     /\ args_id' = r.args_id
     /\ last' = Report("add", r.outcome, r.id)
     /\ UNCHANGED query

\* The zettel an edit or a removal is about: args.id when given, else the
\* last zettel (edit) or nothing (remove).  The patterns of the command are
\* empty here.
resolve(sel, or_last) ==
  IF sel # NoId THEN get_from_id(wt, dirs, sel)
  ELSE IF or_last THEN get_last(wt, dirs)
  ELSE [err |-> "SystemExit", id |-> NoId, title |-> << >>]

\* edit_zettel from the point where the zettel zet0 is resolved.
edit_result(zet0, out) ==
  LET id_ == zet0.id
      wt1 == _open_file(wt, id_, out)
      zet == get(wt1, dirs, id_)
      base == [outcome |-> "", wt |-> wt1, index |-> index, repo |-> repo]
  IN IF zet.err = "ValueError"
       THEN [base EXCEPT !.outcome = "aborted",
                         !.wt = call_git_restore(index, wt1, id_)]
       ELSE
         LET m == _file_was_modified(index, wt1, dirs, repo, id_)
             staged == [base EXCEPT !.index = m.index]
         IN IF ~m.modified
              THEN [staged EXCEPT !.outcome = "no-op"]
              ELSE
                LET touched == _get_files_touched_last_commit(repo)
                IN IF touched.err # "none"
                     THEN [staged EXCEPT !.outcome = "GitError"]
                     ELSE IF is_single_touched(touched.files, id_)
                       THEN
                         LET idx2 == call_git_add(m.index, wt1, dirs, id_)
                         IN [staged EXCEPT
                               !.outcome = "squashed",
                               !.index = idx2,
                               !.repo = call_git_commit_amend(idx2, repo)]
                       ELSE
                         LET c == _commit_zettel(m.index, wt1, dirs, repo,
                                    id_,
                                    _get_edit_commit_msg(repo, id_,
                                                         zet.title))
                         IN [staged EXCEPT !.outcome = "new-commit",
                                           !.index = c.index,
                                           !.repo = c.repo]

\* A command whose zettel does not resolve exits before it changes anything
\* (so does a removal entered without an id); the step is taken when it
\* resolves.
edit_zettel(sel, out) ==
  \E zet0 \in {resolve(sel, TRUE)} :
  /\ zet0.err = "none"
  /\ \E r \in {edit_result(zet0, out)} :
     /\ r.repo.n <= MaxCommits
     /\ wt' = r.wt
     /\ index' = r.index
     /\ repo' = r.repo
     /\ args_id' = zet0.id
     /\ last' = Report("edit", r.outcome, zet0.id)
     /\ UNCHANGED <<dirs, query>>

\* Variant that commits before the files are deleted.
remove_result_commit_first(sel, zet, answer) ==
  IF ~is_confirmed(answer)
    THEN [outcome |-> "NotEntered", dirs |-> dirs, wt |-> wt,
          index |-> index, repo |-> repo, args_id |-> sel]
    ELSE LET c == _commit_zettel(index, wt, dirs, repo, zet.id,
                                 RM \o zet.title)
         IN [outcome |-> "removed", dirs |-> rmdir(dirs, zet.id),
             wt |-> unlink(wt, zet.id), index |-> c.index,
             repo |-> c.repo, args_id |-> NoId]

\* remove_zettel from the point where the zettel zet is resolved.
remove_result(sel, zet, answer) ==
  IF ~is_confirmed(answer)
    THEN [outcome |-> "NotEntered", dirs |-> dirs, wt |-> wt,
          index |-> index, repo |-> repo, args_id |-> sel]
    ELSE LET wt1 == unlink(wt, zet.id)
             c == _commit_zettel(index, wt1, dirs, repo, zet.id,
                                 RM \o zet.title)
         IN [outcome |-> "removed", dirs |-> rmdir(dirs, zet.id),
             wt |-> wt1, index |-> c.index, repo |-> c.repo,
             args_id |-> NoId]

remove_zettel(sel, answer) ==
  \E zet \in {resolve(sel, FALSE)} :
  /\ zet.err = "none"
  /\ \E r \in {remove_result(sel, zet, answer)} :
     /\ r.repo.n <= MaxCommits
     /\ dirs' = r.dirs
     /\ wt' = r.wt
     /\ index' = r.index
     /\ repo' = r.repo
     /\ args_id' = r.args_id
     /\ last' = Report("remove", r.outcome, zet.id)
     /\ UNCHANGED query

Next ==
  \/ \E id \in Ids, c \in Contents : AuthorOutside(id, c)
  \/ \E sel \in {NoId, args_id}, id_ \in Ids, out \in Contents :
        add_zettel(sel, id_, out)
  \/ \E sel \in ArgIds, out \in Contents : edit_zettel(sel, out)
  \/ \E sel \in Ids, answer \in Answers : remove_zettel(sel, answer)

Spec == Init /\ [][Next]_vars

TypeOK ==
  /\ dirs \subseteq Ids
  /\ wt \in [Ids -> Contents \cup {Absent}]
  /\ index \in [Ids -> Contents \cup {Absent}]
  /\ repo.n \in 0..MaxCommits
  /\ Len(repo.commits) = (IF repo.n < 2 THEN repo.n ELSE 2)
  /\ repo.logged \subseteq Ids
  /\ args_id \in ArgIds

\* ------------------------------------------------- search and selection
\* The notes of the searched repositories.
NoteA == <<"#", " ", "z", "e", "t", "\n", "t", "e", "s", "t", "\n">>
NoteB == <<"#", " ", "z", "e", "t", "\n">>
NoteZ == <<"#", " ", "Z", "e", "t", "\n", "t", "e", "s", "t", "\n">>

Rotation == <<NoteA, NoteB, NoteZ>>

\* A repository of n tracked notes: few, or just at and just over the
\* threshold of the bulk confirmation.
FileCounts ==
  0..MaxFew \cup {confirmation_threshold, confirmation_threshold + 1}

Repository(n, r) == [i \in 1..n |-> Rotation[((i + r) % 3) + 1]]

Repositories ==
  {Repository(n, r) : n \in 0..MaxFew, r \in 0..2}
    \cup {Repository(n, 0) : n \in FileCounts}

zet == <<"z", "e", "t">>
test == <<"t", "e", "s", "t">>

\* The pattern lists of a command line.
PatternLists ==
  {<< >>, <<<< >>>>, <<<<" ">>>>, <<<< >>, <<" ">>>>, <<zet>>, <<test>>,
   <<zet, test>>, <<zet, <<" ">>>>}

RECURSIVE SeqsUpTo(_, _)
SeqsUpTo(S, n) ==
  IF n = 0 THEN {<< >>}
  ELSE LET shorter == SeqsUpTo(S, n - 1)
       IN shorter \cup {Append(q, x) : q \in shorter, x \in S}

Responses == {"", "1", "9", "x", "y", "n", KeyboardInterrupt}

TypedLines == {<< >>, <<"z", "e", "t">>, <<"Z", "e", "t">>,
               <<"z", "e", "t", " ", "t", "e", "s", "t">>}

\* A command entered with its patterns and its case flag on a repository.
InitQuery ==
  /\ dirs = {}
  /\ wt = [i \in Ids |-> Absent]
  /\ index = EmptyTree
  /\ repo = EmptyRepo
  /\ args_id = NoId
  /\ last = Report("init", "ok", NoId)
  /\ tracked \in Repositories
  /\ patterns \in PatternLists
  /\ ignore_case \in BOOLEAN
  /\ result = [op |-> "none"]

workflow == <<dirs, wt, index, repo, last>>

\* The resolution step of show / edit / remove entered with patterns.
SelectFromGrep(found, responses) ==
  /\ result.op = "none"
  /\ \E sel \in {select_from_found(found, responses)} :
     /\ result' = [op |-> "select_from_grep", responses |-> responses,
                   found |-> [k \in 1..Len(found.matches) |->
                                found.matches[k].id],
                   searched |-> found.searched, msg |-> found.msg,
                   outcome |-> sel.outcome, id |-> sel.id,
                   prompts |-> sel.prompts]
     /\ args_id' = IF sel.outcome = "selected" THEN sel.id ELSE args_id
  /\ UNCHANGED <<workflow, tracked, patterns, ignore_case>>

\* grep.grep: git grep run in the zettel folder; git prints the files.
_build_grep_options(icase) ==
  {"-I", "--heading", "--break", "--all-match"}
    \cup (IF icase THEN {"--ignore-case"} ELSE {})

grep(tr, pats, icase) ==
  git_grep(tr, _build_grep_options(icase), parse_grep_patterns(pats))

Grep ==
  /\ result.op = "none"
  /\ patterns # << >>
  /\ \E g \in {grep(tracked, patterns, ignore_case)} :
       result' = [op |-> "grep", rc |-> g.rc, out |-> g.out]
  /\ UNCHANGED <<workflow, args_id, tracked, patterns, ignore_case>>

\* _get_grep_patterns: the line typed at 'Grep patterns: ', split.
_get_grep_patterns(interrupted, line) ==
  IF interrupted
    THEN [err |-> "NotEnteredError", patterns |-> << >>]
    ELSE [err |-> "none", patterns |-> split(line)]

\* One round of decide_whats_next: the choice typed at "What's next?" and,
\* for 'g' and 'G', the line typed at the pattern prompt.
decide_whats_next(choice, interrupted, line) ==
  /\ result.op = "none"
  /\ IF choice = KeyboardInterrupt \/ choice = "q"
       THEN /\ result' = [op |-> "decide_whats_next", choice |-> choice,
                          interrupted |-> choice = KeyboardInterrupt,
                          typed |-> << >>, outcome |-> "SystemExit"]
            /\ UNCHANGED <<args_id, patterns, ignore_case>>
       ELSE
         \E typed \in {_get_grep_patterns(interrupted, line)} :
         \E g \in {IF typed.err = "none"
                     THEN get_from_grep(tracked, typed.patterns,
                                        choice = "G")
                     ELSE [err |-> typed.err]} :
           /\ args_id' = NoId
           /\ ignore_case' = (choice = "G")
           /\ patterns' = IF typed.err # "none" THEN patterns
                          ELSE IF g.err = "NotFoundError" THEN << >>
                          ELSE typed.patterns
           /\ result' = [op |-> "decide_whats_next", choice |-> choice,
                         interrupted |-> interrupted,
                         typed |-> typed.patterns,
                         outcome |-> IF g.err = "none" THEN "found"
                                     ELSE g.err]
  /\ UNCHANGED <<workflow, tracked>>

NextQuery ==
  \/ \E found \in {get_from_grep(tracked, patterns, ignore_case)},
        responses \in SeqsUpTo(Responses, MaxResponses) :
        SelectFromGrep(found, responses)
  \/ Grep
  \/ \E choice \in {"g", "G", "q", KeyboardInterrupt},
        interrupted \in BOOLEAN, line \in TypedLines :
        decide_whats_next(choice, interrupted, line)

SpecQuery == InitQuery /\ [][NextQuery]_vars

\* -------------------------------------------------------- parsed texts
\* The strings get_markdown_title is called with: every string of up to
\* MaxLen characters.
Chars == {"#", " ", "\t", "A"}

TitleLines == SeqsUpTo(Chars, MaxLen)

\* The lines of the files zettel.get reads: first lines well formed and
\* malformed, and tag lines behind 0..MaxIndent spaces.
FirstLines ==
  {<<"#", " ", "A", "b">>, <<"#", " ", "A">>, <<" ", "#", " ", "A", "b">>,
   <<"#", " ", "A", "b", " ">>, <<"#", "#", " ", "A", "b">>,
   <<"#", "A", "b">>, <<"#", " ", " ", "A", "b">>, <<" ">>, << >>}

Indent(n) == [i \in 1..n |-> " "]

TagLines ==
  {Indent(n) \o w : n \in 0..MaxIndent,
                    w \in {<<"#", "a">>, <<"#", "b", " ", "#", "a">>}}

RECURSIVE Joined(_)
Joined(n) ==
  IF n = 1 THEN FirstLines \cup TagLines
  ELSE {head \o <<"\n">> \o l :
          head \in Joined(n - 1), l \in FirstLines \cup TagLines}

Files ==
  {body \o end : body \in UNION {Joined(n) : n \in 1..MaxLines},
                 end \in {<< >>, <<"\n">>}}

\* A string or a file about to be parsed (the file is that of zettel 1).
InitParse ==
  /\ dirs = {}
  /\ wt = [i \in Ids |-> Absent]
  /\ index = EmptyTree
  /\ repo = EmptyRepo
  /\ args_id = NoId
  /\ last = Report("init", "ok", NoId)
  /\ \E text \in TitleLines \cup Files : tracked = <<text>>
  /\ patterns = << >>
  /\ ignore_case = FALSE
  /\ result = [op |-> "none"]

GetMarkdownTitle ==
  /\ result.op = "none"
  /\ \E t \in {get_markdown_title(tracked[1])} :
       result' = [op |-> "get_markdown_title", err |-> t.err,
                  title |-> t.title, warned |-> t.warned]
  /\ UNCHANGED <<workflow, args_id, tracked, patterns, ignore_case>>

Get ==
  /\ result.op = "none"
  /\ \E z \in {get_text(tracked[1], 1)} :
       result' = [op |-> "get", err |-> z.err, title |-> z.title,
                  tags |-> z.tags, warned |-> z.warned]
  /\ UNCHANGED <<workflow, args_id, tracked, patterns, ignore_case>>

\* get_tags is handed one line.
GetTags ==
  /\ result.op = "none"
  /\ \A i \in 1..Len(tracked[1]) : tracked[1][i] # "\n"
  /\ \E tags \in {get_tags(tracked[1])} :
       result' = [op |-> "get_tags", tags |-> tags]
  /\ UNCHANGED <<workflow, args_id, tracked, patterns, ignore_case>>

NextParse == GetMarkdownTitle \/ Get \/ GetTags

SpecParse == InitParse /\ [][NextParse]_vars

\* ------------------------------------------------------- scanned folders
\* The directory names a zettels folder may hold: ids written by add_zettel,
\* and names put there by hand.
NamePool ==
  <<<<"2", "0", "2", "0", "0", "1", "0", "1", "0", "0", "0", "0", "0", "0">>,
    <<"n", "o", "t", "e", "s">>,
    <<"2", "0", "2", "0", "0", "1", "0", "1", "0", "0", "0", "0", "0", "2">>,
    <<"2", "0", "2", "0", "1", "3", "9", "9", "0", "0", "0", "0", "0", "0">>,
    <<"9", "9">>>>

Names == {NamePool[k] : k \in 1..MaxNames}

\* A zettels folder about to be listed: some of the names are directories,
\* each with a README.md of some content or without one.
InitScan ==
  /\ dirs \in SUBSET Names
  /\ wt \in [Names -> Contents \cup {Absent}]
  /\ \A n \in Names \ dirs : wt[n] = Absent
  /\ index = EmptyTree
  /\ repo = EmptyRepo
  /\ args_id = NoId
  /\ last = Report("init", "ok", NoId)
  /\ NoQuery

GetAll(is_reversed) ==
  /\ result.op = "none"
  /\ \E all \in {get_all_paths(wt, dirs, is_reversed)} :
       result' = [op |-> "get_all", is_reversed |-> is_reversed,
                  err |-> all.err, items |-> all.items]
  /\ UNCHANGED <<workflow, args_id, tracked, patterns, ignore_case>>

NextScan == \E is_reversed \in BOOLEAN : GetAll(is_reversed)

SpecScan == InitScan /\ [][NextScan]_vars

\* ------------------------------------------- a zettel with attachments
\* The files of one zettel's directory: the note and a file kept beside it.
\* Here a tree maps the files of that directory to their content.
README == "README.md"
DirFiles == {README, "image.png"}

\* The directory of zettel 1 as some history left it: what is on disk, what
\* HEAD holds of it, and an index equal to HEAD or with the disk staged.
InitRemove ==
  /\ dirs = {1}
  /\ wt \in [DirFiles -> Contents \cup {Absent}]
  /\ \E head \in [DirFiles -> Contents \cup {Absent}] :
       /\ repo = [commits |-> <<[msg |-> << >>,
                                 tree |-> [f \in DirFiles |-> Absent]],
                               [msg |-> << >>, tree |-> head]>>,
                  n |-> 2, logged |-> {}]
       /\ index \in {head, wt}
  /\ args_id = 1
  /\ last = Report("init", "ok", NoId)
  /\ NoQuery

\* for file in zet.path.parent.iterdir(): file.unlink()
RECURSIVE unlink_all(_, _)
unlink_all(wtree, files) ==
  IF files = {} THEN wtree
  ELSE LET f == CHOOSE x \in files : TRUE
       IN unlink_all(unlink(wtree, f), files \ {f})

\* remove_zettel --id 1 on a directory with several files: git is given
\* the path of the note only.
remove_dir_result(found, answer) ==
  IF ~is_confirmed(answer)
    THEN [outcome |-> "NotEntered", dirs |-> dirs, wt |-> wt,
          index |-> index, repo |-> repo, args_id |-> args_id]
    ELSE LET wt1 == unlink_all(wt, {f \in DirFiles : wt[f] # Absent})
             c == _commit_zettel(index, wt1, DirFiles, repo, README,
                                 RM \o found.title)
         IN [outcome |-> "removed", dirs |-> rmdir(dirs, found.id),
             wt |-> wt1, index |-> c.index, repo |-> c.repo,
             args_id |-> NoId]

RemoveDir(answer) ==
  /\ last.op = "init"
  /\ wt[README] # Absent
  /\ \E found \in {get_text(Text(wt[README]), 1)} :
     /\ found.err = "none"
     /\ \E r \in {remove_dir_result(found, answer)} :
        /\ dirs' = r.dirs
        /\ wt' = r.wt
        /\ index' = r.index
        /\ repo' = r.repo
        /\ args_id' = r.args_id
        /\ last' = Report("remove", r.outcome, found.id)
        /\ UNCHANGED query

NextRemove == \E answer \in Answers : RemoveDir(answer)

SpecRemove == InitRemove /\ [][NextRemove]_vars

\* ------------------------------------------------- command-line tokens
\* What may stand in the patterns of a command line: words, the empty
\* string, and tokens that begin with '-'.
Tokens == {zet, test, << >>, <<"-", "n">>, <<"-", "-">>}

InitArgs ==
  /\ dirs = {}
  /\ wt = [i \in Ids |-> Absent]
  /\ index = EmptyTree
  /\ repo = EmptyRepo
  /\ args_id = NoId
  /\ last = Report("init", "ok", NoId)
  /\ tracked = << >>
  /\ patterns \in SeqsUpTo(Tokens, MaxTokens)
  /\ ignore_case = FALSE
  /\ result = [op |-> "none"]

ParseGrepPatterns ==
  /\ result.op = "none"
  /\ \E opts \in {parse_grep_patterns(patterns)} :
       result' = [op |-> "parse_grep_patterns", opts |-> opts]
  /\ UNCHANGED <<workflow, args_id, tracked, patterns, ignore_case>>

NextArgs == ParseGrepPatterns

SpecArgs == InitArgs /\ [][NextArgs]_vars

\* ------------------------------------------------- interactive session
\* decide_whats_next over a repository of committed notes: one round is the
\* choice typed at "What's next?", the action _decide runs for it, and the
\* except clauses of the loop.  (The choice 'p' calls show.command, whose
\* form taking (args, config) is not among the sources; it has no round
\* here.)
SessionContents == {"hello", "hi", "late"}

\* What is typed at the prompts of a selection.
SessionResponses == {<<"">>, <<"1">>, <<"n">>, <<KeyboardInterrupt>>}

SessionLines == {<< >>, <<"H", "i">>, <<"z", "e", "t">>}

InitSession ==
  /\ wt \in [Ids -> SessionContents \cup {Absent}]
  /\ dirs = {i \in Ids : wt[i] # Absent}
  /\ index = wt
  /\ repo = IF dirs = {} THEN EmptyRepo
            ELSE [commits |-> <<[msg |-> << >>, tree |-> wt]>>,
                  n |-> 1, logged |-> {}]
  /\ args_id \in {NoId} \cup dirs
  /\ last = Report("init", "ok", NoId)
  /\ tracked = << >>
  /\ patterns \in {<< >>, <<<<"H", "i">>>>}
  /\ ignore_case = FALSE
  /\ result = [op |-> "none"]

\* What git grep reads: the tracked files present in the working tree.
grep_tree(idx, wtree) ==
  [i \in {j \in DOMAIN wtree : idx[j] # Absent /\ wtree[j] # Absent}
     |-> Text(wtree[i])]

\* The state of the program when _decide returns or raises err.
Ended(err, ds, wtree, idx, r, id, pats, icase) ==
  [err |-> err, dirs |-> ds, wt |-> wtree, index |-> idx, repo |-> r,
   args_id |-> id, patterns |-> pats, ignore_case |-> icase]

EndedEarly(err, id, pats, icase) ==
  Ended(err, dirs, wt, index, repo, id, pats, icase)

\* The zettel edit_zettel and remove_zettel are about, inside a session:
\* args.id when set, else a selection among the matches of args.patterns,
\* else the last zettel (edit) or nothing (remove).
resolve_in_session(found, responses, or_last) ==
  IF args_id # NoId THEN get_from_id(wt, dirs, args_id)
  ELSE IF patterns # << >>
    THEN LET sel == select_from_found(found, responses)
         IN IF sel.outcome = "selected"
              THEN get(wt, dirs, sel.id)
              ELSE [err |-> sel.outcome, id |-> NoId, title |-> << >>]
  ELSE IF or_last THEN get_last(wt, dirs)
  ELSE [err |-> "SystemExit", id |-> NoId, title |-> << >>]

\* add_zettel with the editor looked up: _open_file raises SystemExit when
\* shutil.which finds no editor, after the directory and the empty file
\* were written.
add_with_editor(sel, id_, out, editor_found) ==
  IF editor_found THEN add_result(sel, id_, out)
  ELSE [outcome |-> "SystemExit", dirs |-> mkdir(dirs, id_),
        wt |-> [wt EXCEPT ![id_] = "empty"], index |-> index,
        repo |-> repo, args_id |-> sel, id |-> id_]

\* edit_zettel from the point where zet0 is resolved or the resolution
\* raised.
_decide_e(zet0, out, editor_found) ==
     IF zet0.err # "none"
       THEN EndedEarly(zet0.err, args_id, patterns, ignore_case)
       ELSE IF ~editor_found
         THEN EndedEarly("SystemExit", zet0.id, patterns, ignore_case)
       ELSE LET r == edit_result(zet0, out)
            IN Ended(IF r.outcome = "GitError" THEN "SystemExit"
                     ELSE "none",
                     dirs, r.wt, r.index, r.repo, zet0.id, patterns,
                     ignore_case)

\* remove_zettel likewise.
_decide_d(zet1, answer) ==
     IF zet1.err # "none"
       THEN EndedEarly(zet1.err, args_id, patterns, ignore_case)
       ELSE LET r == remove_result(zet1.id, zet1, answer)
            IN Ended(IF r.outcome = "NotEntered" THEN "NotEnteredError"
                     ELSE "none",
                     r.dirs, r.wt, r.index, r.repo, r.args_id, patterns,
                     ignore_case)

_decide_g(choice, interrupted, line) ==
  LET typed == _get_grep_patterns(interrupted, line)
  IN IF typed.err # "none"
       THEN EndedEarly(typed.err, NoId, patterns, choice = "G")
       ELSE EndedEarly(get_from_grep(grep_tree(index, wt), typed.patterns,
                                     choice = "G").err,
                       NoId, typed.patterns, choice = "G")

\* add_zettel ended in r.
_decide_a(r) ==
     Ended(IF r.outcome = "SystemExit" THEN "SystemExit" ELSE "none",
           r.dirs, r.wt, r.index, r.repo, r.args_id, patterns,
           ignore_case)

\* Variant whose NotEntered clause clears the patterns as well.
except_clauses_clearing(r) ==
  [r EXCEPT
     !.args_id = IF r.err \in {"NotFoundError", "NotEnteredError"}
                   THEN NoId ELSE @,
     !.patterns = IF r.err \in {"NotFoundError", "NotEnteredError"}
                    THEN << >> ELSE @]

\* The except clauses of decide_whats_next.
except_clauses(r) ==
  [r EXCEPT
     !.args_id = IF r.err \in {"NotFoundError", "NotEnteredError"}
                   THEN NoId ELSE @,
     !.patterns = IF r.err = "NotFoundError" THEN << >> ELSE @]

\* The loop is at its prompt: nothing has left it.
AtPrompt ==
  IF result.op = "decide_whats_next"
    THEN result.outcome \notin {"SystemExit", "ValueError"}
    ELSE TRUE

\* The turns of the loop taken so far.
Rounds == IF result.op = "decide_whats_next" THEN result.round ELSE 0

\* One turn of the `while True` loop.
WhatsNext(choice, ended) ==
  /\ AtPrompt
  /\ Rounds < MaxRounds
  /\ \E r \in {except_clauses(ended)} :
     /\ r.repo.n <= MaxCommits
     /\ dirs' = r.dirs
     /\ wt' = r.wt
     /\ index' = r.index
     /\ repo' = r.repo
     /\ args_id' = r.args_id
     /\ patterns' = r.patterns
     /\ ignore_case' = r.ignore_case
     /\ result' = [op |-> "decide_whats_next", choice |-> choice,
                   outcome |-> r.err, round |-> Rounds + 1]
  /\ UNCHANGED <<last, tracked>>

\* The selection is reached, and its prompts answered, only when args.id
\* is not set and args.patterns is not empty.
Typed ==
  IF args_id = NoId /\ patterns # << >> THEN SessionResponses ELSE {<< >>}

Found ==
  IF args_id = NoId /\ patterns # << >>
    THEN get_from_grep(grep_tree(index, wt), patterns, ignore_case)
    ELSE [err |-> "none", matches |-> << >>]

NextSession ==
  \/ \E found \in {Found}, responses \in Typed, out \in SessionContents,
        editor_found \in BOOLEAN :
        \E zet0 \in {resolve_in_session(found, responses, TRUE)} :
          /\ zet0.err # "waiting"
          /\ \E ended \in {_decide_e(zet0, out, editor_found)} :
               WhatsNext("e", ended)
  \/ \E found \in {Found}, responses \in Typed, answer \in Answers :
        \E zet1 \in {resolve_in_session(found, responses, FALSE)} :
          /\ zet1.err # "waiting"
          /\ \E ended \in {_decide_d(zet1, answer)} :
               WhatsNext("d", ended)
  \/ \E choice \in {"g", "G"}, interrupted \in BOOLEAN,
        line \in SessionLines :
        \E ended \in {_decide_g(choice, interrupted, line)} :
          WhatsNext(choice, ended)
  \/ \E id_ \in Ids, out \in SessionContents, editor_found \in BOOLEAN :
        /\ utc_now(id_)
        /\ \E r \in {add_with_editor(args_id, id_, out, editor_found)} :
             \E ended \in {_decide_a(r)} : WhatsNext("a", ended)
  \/ \E choice \in {"q", KeyboardInterrupt} :
        \E ended \in {EndedEarly("SystemExit", args_id, patterns,
                                 ignore_case)} :
          WhatsNext(choice, ended)
  \/ \E choice \in {"?", "x"} :
        \E ended \in {EndedEarly("none", args_id, patterns, ignore_case)} :
          WhatsNext(choice, ended)

SpecSession == InitSession /\ [][NextSession]_vars

\* ---------------------------------------------------------------- claims
EditOutcomes == {"no-op", "aborted", "new-commit", "squashed"}

HeadMsg(r) == r.commits[Len(r.commits)].msg

Hello == <<"H", "e", "l", "l", "o">>

\* The step is an edit of the zettel last'.id whose editor left an empty or
\* blank first line (the only way to the aborted outcome) ...
EditBlank == last'.op = "edit" /\ last'.outcome = "aborted"

\* ... or left a title, and then the file holds what the editor wrote.
EditTitled == last'.op = "edit" /\ last'.outcome # "aborted"

\* An edit step after which the file differs from what HEAD held for it.
EditChanged ==
  EditTitled /\ wt'[last'.id] # HeadTree(repo.commits)[last'.id]

\* C1: a content-changing edit of the only zettel the most recent commit
\* touched is folded into that commit (HEAD holds the new content, the
\* number of commits is the same); a content-changing edit of a zettel the
\* most recent commit did not touch adds exactly one commit.
C1_SquashOrNewCommit ==
  [][(EditChanged /\ repo.n >= 1)
     => /\ TouchedBy(repo.commits) = {last'.id}
           => /\ repo'.n = repo.n
              /\ HeadTree(repo'.commits)[last'.id] = wt'[last'.id]
        /\ last'.id \notin TouchedBy(repo.commits)
           => repo'.n = repo.n + 1]_vars

\* C2 as stated: an edit that leaves the file's bytes as they were (first
\* line non-empty) reports the no-op outcome and leaves the commit log as
\* it was.  Stated for the histories in which HEAD has a parent, where no
\* edit stops on the missing HEAD^.
C2_UnchangedBytesNoOp ==
  [][(EditTitled /\ wt'[last'.id] = wt[last'.id] /\ repo.n >= 2)
     => (last'.outcome = "no-op" /\ repo' = repo)]_vars

\* C2 amended: an edit after which the file's bytes equal the content HEAD
\* holds for the file (first line non-empty) reports the no-op outcome and
\* leaves the commit log as it was.
C2_SameAsHeadNoOp ==
  [][(EditTitled /\ wt'[last'.id] = HeadTree(repo.commits)[last'.id])
     => (last'.outcome = "no-op" /\ repo' = repo)]_vars

C2_Witness ==
  /\ last.op = "edit"
  /\ last.outcome = "no-op"
  /\ repo.n >= 1
  /\ wt[last.id] = HeadTree(repo.commits)[last.id]

\* C3: with at least one commit in the history, every edit of a resolved
\* zettel ends in one of the outcomes no-op, aborted, new-commit, squashed.
C3_EditEndsInOutcome ==
  [][(last'.op = "edit" /\ repo.n >= 1)
     => last'.outcome \in EditOutcomes]_vars

\* C4: an edit squashes only when the most recent commit touched exactly
\* the file of the edited zettel; a content-changing edit after a commit
\* that touched another file creates a new commit on top of the previous
\* one, which stays as it was.
C4_SquashOnlySingleFile ==
  [][(last'.op = "edit" /\ repo.n >= 1)
     => /\ last'.outcome = "squashed"
           => TouchedBy(repo.commits) = {last'.id}
        /\ (EditChanged /\ TouchedBy(repo.commits) \ {last'.id} # {})
           => /\ last'.outcome = "new-commit"
              /\ repo'.n = repo.n + 1
              /\ ParentTree(repo'.commits) = HeadTree(repo.commits)
              /\ repo'.logged = repo.logged \cup TouchedBy(repo.commits)]_vars

\* C5: a removal whose prompt is answered with anything but 'y', or is
\* interrupted, deletes no file and no directory, creates no commit and
\* ends in the NotEntered outcome.
C5_NotConfirmedRemovesNothing ==
  [][last'.op = "remove"
     => \A answer \in Answers \ {"y"} :
          remove_zettel(last'.id, answer)
          => /\ dirs' = dirs
             /\ wt' = wt
             /\ repo' = repo
             /\ last'.outcome = "NotEntered"]_vars

C5_Witness ==
  /\ last.op = "remove"
  /\ last.outcome = "NotEntered"
  /\ last.id \in dirs
  /\ wt[last.id] # Absent

\* C6: an edit that leaves a committed file with an empty or blank first
\* line ends with the file holding its last committed content and with the
\* commit log as it was.
C6_AbortedEditRestoresCommitted ==
  [][(EditBlank /\ HeadTree(repo.commits)[last'.id] # Absent)
     => /\ wt'[last'.id] = HeadTree(repo.commits)[last'.id]
        /\ repo' = repo]_vars

\* C7: an add whose id names no existing directory and whose editor leaves
\* an empty or blank first line deletes the new file and its directory,
\* creates no commit and leaves args.id as it was on entry.
C7_AbortedAddCleansUp ==
  [][(last'.op = "add" /\ last'.id \notin dirs)
     => \A sel \in {NoId, args_id}, out \in {"empty", "blank"} :
          add_zettel(sel, last'.id, out)
          => /\ last'.outcome = "aborted"
             /\ dirs' = dirs
             /\ wt'[last'.id] = Absent
             /\ repo' = repo
             /\ args_id' = sel]_vars

C7_Witness ==
  /\ last.op = "add"
  /\ last.outcome = "aborted"
  /\ last.id \notin dirs
  /\ dirs # {}
  /\ args_id # NoId

\* C8: an add whose id names an existing zettel directory fails and changes
\* nothing: the existing file and the commit log stay as they were.
C8_CollisionFails ==
  [][(last'.op = "add" /\ last'.id \in dirs)
     => /\ last'.outcome \notin {"created", "aborted"}
        /\ dirs' = dirs
        /\ wt' = wt
        /\ repo' = repo]_vars

\* C9: the message of the commit a non-squashing edit creates is 'ED: '
\* followed by the title when a commit of the history changed the file, and
\* the bare title when none did.
C9_EditCommitMessage ==
  [][(last'.op = "edit" /\ last'.outcome = "new-commit")
     => /\ repo'.n = repo.n + 1
        /\ HeadMsg(repo') =
             IF last'.id \in repo.logged \cup TouchedBy(repo.commits)
               THEN ED \o get(wt', dirs, last'.id).title
               ELSE get(wt', dirs, last'.id).title]_vars

\* A hand-written note gets its first commit from an edit.
C9_Witness ==
  /\ last.op = "edit"
  /\ last.outcome = "new-commit"
  /\ HeadMsg(repo) = get(wt, dirs, last.id).title
  /\ last.id \notin repo.logged

\* C10: in a fresh repository an add whose editor writes '# Hello' makes the
\* scan return exactly one zettel, titled 'Hello'; removing it with 'y'
\* leaves no zettel directory, and the next scan fails for want of zettels.
C10_AddThenRemove ==
  [][/\ (last'.op = "add" /\ dirs = {} /\ repo = EmptyRepo)
        => \A sel \in {NoId, args_id} :
             add_zettel(sel, last'.id, "hello")
             => get_all(wt', dirs', FALSE) =
                  [err |-> "none",
                   items |-> <<[id |-> last'.id, title |-> Hello]>>]
     /\ (last'.op = "remove" /\ repo.n = 1 /\ repo.logged = {}
           /\ dirs = {last'.id} /\ wt[last'.id] = "hello")
        => (remove_zettel(last'.id, "y")
            => /\ last'.id \notin dirs'
               /\ dirs' = {}
               /\ get_all(wt', dirs', FALSE).err = "SystemExit")]_vars

C10_Witness ==
  /\ last.op = "remove"
  /\ last.outcome = "removed"
  /\ dirs = {}
  /\ repo.n = 2
  /\ HeadMsg(repo) = RM \o Hello
  /\ get_all(wt, dirs, FALSE).err = "SystemExit"

\* ------------------------------------------------ claims on the search
\* Every pattern matches some line of the file.
matches_all(text, pats, icase) ==
  \A k \in 1..Len(pats) :
    \E n \in 1..Len(splitlines(text)) :
      line_matches(splitlines(text)[n], pats[k], icase)

FoundFiles ==
  IF result.op = "grep" THEN {result.out[k] : k \in 1..Len(result.out)}
  ELSE IF result.op = "select_from_grep"
    THEN {result.found[k] : k \in 1..Len(result.found)}
    ELSE {}

\* C11: the grep command and get_from_grep return a zettel only if every
\* supplied pattern matches somewhere in its file (AND across patterns, in
\* the letter case asked for); a zettel matching only some is excluded.
C11_EveryPatternMatches ==
  \A f \in FoundFiles : matches_all(tracked[f], patterns, ignore_case)

\* C12: with ignore_case false (a command line without the flag, or 'g' in
\* the interactive loop), get_from_grep finds no zettel that holds a pattern
\* only in another letter case.
C12_CaseSensitiveUnlessRequested ==
  /\ (result.op = "select_from_grep" /\ ~ignore_case)
       => \A k \in 1..Len(result.found) :
            matches_all(tracked[result.found[k]], patterns, FALSE)
  /\ (result.op = "decide_whats_next" /\ result.choice = "g"
        /\ result.outcome = "found")
       => \E f \in DOMAIN tracked :
            matches_all(tracked[f], result.typed, FALSE)

\* C13: with more than one match and at most 50, an empty response, a
\* non-numeric response or a number outside 1..n ends the selection with the
\* aborting outcome, and the selection prompt is shown once only.
C13_BadResponseAborts ==
  (/\ result.op = "select_from_grep"
   /\ Len(result.found) > 1
   /\ Len(result.found) <= confirmation_threshold
   /\ result.responses # << >>
   /\ \/ Head(result.responses) = ""
      \/ int(Head(result.responses)) \notin 1..Len(result.found))
    => /\ result.outcome = "NotEnteredError"
       /\ result.prompts = <<"#? ">>

\* The answer that declines the prompt: the empty line at the index
\* selection, 'n' at the two confirmations.
decline(prompt) == IF prompt = "#? " THEN "" ELSE "n"

\* A selection that ended at its k-th prompt with a keyboard interrupt.
InterruptedAt(k) ==
  /\ result.op = "select_from_grep"
  /\ Len(result.prompts) = k
  /\ k \in 1..Len(result.responses)
  /\ result.responses[k] = KeyboardInterrupt

\* The interrupted selection ends as the same selection declined.
SelectionInterruptIsDecline ==
  \A k \in 1..MaxResponses + 1 :
    InterruptedAt(k)
      => LET declined == [result.responses EXCEPT
                            ![k] = decline(result.prompts[k])]
         IN result.outcome =
              select_from_grep(tracked, patterns, ignore_case,
                               declined).outcome

PatternEntryInterrupted ==
  /\ result.op = "decide_whats_next"
  /\ result.choice \in {"g", "G"}
  /\ result.interrupted

\* C14 as stated: a keyboard interrupt at any prompt (bulk confirmation,
\* single-match confirmation, index selection, pattern entry, "What's
\* next?") is caught and ends in the outcome that declining that prompt
\* produces; for the pattern entry, declining is entering nothing.
C14_InterruptSameAsDecline ==
  /\ SelectionInterruptIsDecline
  /\ PatternEntryInterrupted
       => result.outcome =
            get_from_grep(tracked, _get_grep_patterns(FALSE, << >>).patterns,
                          result.choice = "G").err
  /\ (result.op = "decide_whats_next"
        /\ result.choice = KeyboardInterrupt)
       => result.outcome = "SystemExit"

\* C14 as the code has it: the interrupt is always caught; at the prompts
\* of select_from_grep it ends in the outcome of declining; at the pattern
\* entry it ends in NotEnteredError (entering nothing ends in
\* NotFoundError); at "What's next?" it leaves the program (SystemExit).
C14_InterruptCaught ==
  /\ SelectionInterruptIsDecline
  /\ result.op = "select_from_grep"
       => result.outcome \in {"selected", "waiting", "NotEnteredError",
                              "NotFoundError"}
  /\ PatternEntryInterrupted
       => /\ result.outcome = "NotEnteredError"
          /\ get_from_grep(tracked, _get_grep_patterns(FALSE, << >>).patterns,
                           result.choice = "G").err = "NotFoundError"
  /\ (result.op = "decide_whats_next"
        /\ result.choice = KeyboardInterrupt)
       => result.outcome = "SystemExit"

C14_Witness ==
  /\ InterruptedAt(2)
  /\ result.prompts = <<"Are you sure to continue? (y/N): ", "#? ">>
  /\ result.outcome = "NotEnteredError"

\* ----------------------------------------- claims on the collaborator
\* The commit step of the command that just ended took effect.
CommitStepSucceeded ==
  IF last'.outcome = "squashed"
    THEN git_commit_amend(index', repo).rc = 0
    ELSE git_commit(index', repo, << >>).rc = 0

\* C15: a non-zero exit of git in add, commit, commit --amend or restore is
\* propagated as a failure; no workflow reports success (zettel created,
\* change committed or auto-squashed, zettel removed) after its commit step
\* failed.
C15_NoSuccessAfterGitFailure ==
  [][last'.outcome \in {"created", "squashed", "new-commit", "removed"}
       => CommitStepSucceeded]_vars

\* The empty string or nothing but whitespace.
blank(p) == \A i \in 1..Len(p) : p[i] \in {" ", "\t", "\n"}

\* C16: get_from_grep fails with the not-found outcome and the message
\* 'Wrong value provided (empty or whitespace)!', without running the
\* search, exactly when every supplied pattern is empty or whitespace-only;
\* with one non-blank pattern the search is run.
C16_BlankPatternsRejected ==
  result.op = "select_from_grep"
    => ((\A k \in 1..Len(patterns) : blank(patterns[k]))
          <=> (/\ ~result.searched
               /\ result.outcome = "NotFoundError"
               /\ result.msg = "Wrong value provided (empty or whitespace)!"))

C16_Witness ==
  /\ result.op = "select_from_grep"
  /\ patterns = <<<< >>, <<" ">>>>
  /\ ~result.searched
  /\ result.outcome = "NotFoundError"

\* ------------------------------------------------ claims on the parser
\* The line is '# ' followed by a text that is not empty and has no
\* whitespace at either end.
WellFormed(line) ==
  /\ Len(line) >= 3
  /\ line[1] = "#"
  /\ line[2] = " "
  /\ line[3] \notin {" ", "\t", "\n"}
  /\ line[Len(line)] \notin {" ", "\t", "\n"}

\* C17: for every line '# ' + text, text of one character or more without
\* leading or trailing whitespace, get_markdown_title returns exactly text
\* and emits no warning.
C17_WellFormedTitleRecovered ==
  (result.op = "get_markdown_title" /\ WellFormed(tracked[1]))
    => /\ result.err = "none"
       /\ result.title = SubSeq(tracked[1], 3, Len(tracked[1]))
       /\ ~result.warned

\* The first line of the file parsed, without its newline.
FirstLine == chomp(readline(tracked[1], 1))

\* C18: when zettel.get parses a file whose first line is not blank but
\* malformed (wrong heading level, missing or extra space, leading or
\* trailing whitespace), the title is that first line unchanged and a
\* warning is emitted.
C18_MalformedTitleVerbatim ==
  (/\ result.op = "get"
   /\ ~blank(FirstLine)
   /\ ~WellFormed(FirstLine))
    => /\ result.err = "none"
       /\ result.title = FirstLine
       /\ result.warned

\* C19: get_markdown_title raises ValueError whenever its argument is empty
\* or consists of whitespace only; it never returns for such an argument.
C19_BlankTitleRaises ==
  (result.op = "get_markdown_title" /\ blank(tracked[1]))
    => result.err = "ValueError"

\* The last line of the file parsed, without its newline.
LastLine ==
  LET ls == splitlines(tracked[1])
  IN IF ls = << >> THEN << >> ELSE ls[Len(ls)]

LeadingSpaces(l) ==
  Cardinality({n \in 1..Len(l) : \A i \in 1..n : l[i] = " "})

\* C20: zettel.get yields tags only from the last line of the file and only
\* if that line begins with at least four spaces: with four leading spaces
\* the tags on it are recognised (without '#', sorted), with three or fewer
\* the tags are empty, whatever the other lines hold.
C20_TagsFromIndentedLastLine ==
  (result.op = "get" /\ result.err = "none")
    => IF LeadingSpaces(LastLine) >= 4
         THEN /\ {result.tags[k] : k \in 1..Len(result.tags)}
                   = {lstrip_hash(split(LastLine)[k]) :
                        k \in 1..Len(split(LastLine))}
              /\ Len(result.tags) = Len(split(LastLine))
              /\ \A k \in 1..(Len(result.tags) - 1) :
                   str_le(result.tags[k], result.tags[k + 1])
         ELSE result.tags = << >>

C20_Witness ==
  /\ result.op = "get"
  /\ result.err = "none"
  /\ Len(splitlines(tracked[1])) = 2
  /\ LeadingSpaces(splitlines(tracked[1])[1]) = 3
  /\ LeadingSpaces(LastLine) = 4
  /\ result.tags = <<<<"a">>, <<"b">>>>

\* A token without its first character when that is '#'.
strip_one_hash(w) == IF w # << >> /\ w[1] = "#" THEN Tail(w) ELSE w

\* C21: get_tags splits the line on whitespace, removes exactly one leading
\* '#' from each token ('##x' gives '#x') and returns the tokens sorted
\* ascending.
C21_OneHashStripped ==
  result.op = "get_tags"
    => result.tags =
         sorted_strs([k \in 1..Len(split(tracked[1])) |->
                        strip_one_hash(split(tracked[1])[k])])

\* ----------------------------------------------- claims on the scanner
Reverse(q) == [k \in 1..Len(q) |-> q[Len(q) + 1 - k]]

\* C22: for the same folder, get_all(is_reversed=True) returns exactly the
\* reverse of get_all(is_reversed=False), and the latter is in ascending id
\* order.
C22_ReversedIsReverse ==
  result.op = "get_all"
    => /\ result.items
            = Reverse(get_all_paths(wt, dirs, ~result.is_reversed).items)
       /\ ~result.is_reversed
            => \A k \in 1..(Len(result.items) - 1) :
                 /\ str_le(result.items[k].id, result.items[k + 1].id)
                 /\ result.items[k].id # result.items[k + 1].id

C22_Witness ==
  /\ result.op = "get_all"
  /\ result.is_reversed
  /\ Len(result.items) = 3
  /\ Cardinality(dirs) = 4

Digit(ch) ==
  CASE ch = "0" -> 0 [] ch = "1" -> 1 [] ch = "2" -> 2 [] ch = "3" -> 3
    [] ch = "9" -> 9 [] OTHER -> -1

TwoDigits(name, at) == 10 * Digit(name[at]) + Digit(name[at + 1])

\* The name reads as YYYYMMDDHHMMSS.
IsTimestamp(name) ==
  /\ Len(name) = 14
  /\ \A i \in 1..14 : Digit(name[i]) >= 0
  /\ TwoDigits(name, 5) \in 1..12
  /\ TwoDigits(name, 7) \in 1..31
  /\ TwoDigits(name, 9) \in 0..23
  /\ TwoDigits(name, 11) \in 0..59
  /\ TwoDigits(name, 13) \in 0..59

\* C23: get_all skips every directory whose name is not a valid 14-digit
\* timestamp, so every zettel it returns has such an id, even when a skipped
\* directory holds a note with a valid title.
C23_OnlyTimestampIds ==
  result.op = "get_all"
    => \A k \in 1..Len(result.items) : IsTimestamp(result.items[k].id)

\* ------------------------------------------------ claims on the removal
ConfirmedRemoval == last'.op = "remove" /\ last'.outcome = "removed"

C27_EveryDeletionCommitted ==
  [][ConfirmedRemoval
       => \A f \in DOMAIN index :
            (wt[f] # Absent /\ index[f] # Absent)
              => /\ index'[f] = Absent
                 /\ HeadTree(repo'.commits)[f] = Absent]_vars

\* ------------------------------------------- claims on the command line
\* The tokens before the first one that starts with '-'.
LeadingPatterns ==
  LET dash == {i \in 1..Len(patterns) :
                 patterns[i] # << >> /\ patterns[i][1] = "-"}
  IN IF dash = {} THEN Len(patterns)
     ELSE (CHOOSE i \in dash : \A j \in dash : i <= j) - 1

\* C25: parse_grep_patterns turns each token before the first token starting
\* with '-' into '--or', '-e', token, in input order, and appends that
\* '-'-token and every token after it unchanged and in order.
C25_PatternsWrappedFlagsVerbatim ==
  result.op = "parse_grep_patterns"
    => LET n == LeadingPatterns
           opts == result.opts
       IN /\ Len(opts) = 3 * n + (Len(patterns) - n)
          /\ \A k \in 1..n :
               /\ opts[3 * k - 2] = <<"-", "-", "o", "r">>
               /\ opts[3 * k - 1] = <<"-", "e">>
               /\ opts[3 * k] = patterns[k]
          /\ \A k \in (n + 1)..Len(patterns) :
               opts[3 * n + (k - n)] = patterns[k]

C25_Witness ==
  /\ result.op = "parse_grep_patterns"
  /\ patterns = <<zet, <<"-", "n">>, test>>
  /\ Len(result.opts) = 5

\* ------------------------------------------------ claims on the session
\* A turn of the loop was taken.
TurnTaken == result'.op = "decide_whats_next" /\ result' # result

\* C26: in decide_whats_next, an action that ends with NotEntered leaves
\* the patterns unchanged and clears only the id; one that ends with
\* NotFound clears the id and the patterns; in both cases the loop goes on
\* to its next prompt.
C26_ExceptClausesFrame ==
  [][TurnTaken
       => /\ result'.outcome = "NotEnteredError"
               => /\ patterns' = patterns
                  /\ args_id' = NoId
                  /\ UNCHANGED workflow
                  /\ AtPrompt'
          /\ result'.outcome = "NotFoundError"
               => /\ patterns' = << >>
                  /\ args_id' = NoId
                  /\ UNCHANGED workflow
                  /\ AtPrompt']_vars

C26_Witness ==
  /\ result.op = "decide_whats_next"
  /\ result.choice = "d"
  /\ result.outcome = "NotEnteredError"
  /\ result.round = 2
  /\ patterns = <<<<"H", "i">>>>
  /\ args_id = NoId

\* C28: get_from_grep returns its matches or fails with NotFound; a matched
\* note whose first line is empty or whitespace-only never makes another
\* exception (ValueError) reach the caller of get_from_grep (the choices
\* 'g' and 'G') or of select_from_grep (edit and remove entered with
\* patterns and no id).
C28_OnlyNotFoundFromGrep ==
  [][(/\ TurnTaken
      /\ \/ result'.choice \in {"g", "G"}
         \/ /\ result'.choice \in {"e", "d"}
            /\ args_id = NoId
            /\ patterns # << >>)
       => result'.outcome # "ValueError"]_vars

\* C29: the loop ends the session only on 'q' or on an interrupt at
\* "What's next?"; no other choice, whatever the id and the patterns are,
\* ends the program.
C29_OnlyQuitEnds ==
  (result.op = "decide_whats_next" /\ ~AtPrompt)
    => result.choice \in {"q", KeyboardInterrupt}

\* C30: add_zettel that fails because the editor cannot be found leaves the
\* repository as it was: no new zettel directory, no empty note file, no
\* commit.
C30_FailedAddLeavesNothing ==
  [][(/\ TurnTaken
      /\ result'.choice = "a"
      /\ result'.outcome = "SystemExit")
       => /\ dirs' = dirs
          /\ wt' = wt
          /\ repo' = repo]_vars

====
